---------------------------- MODULE Spec2Model ----------------------------
(***************************************************************************)
(* Time-clock service (services.py): recording of punches (bater_ponto),   *)
(* administrative correction (atualizar_registro), employee creation and   *)
(* deletion, over the relational store funcionarios / registros /          *)
(* empresas.                                                               *)
(*                                                                         *)
(* Conventions of the model                                                *)
(*  - a time of day is a tuple <<h, m, s>>; a text time (column hora, the  *)
(*    argument novo_horario) is the tuple of the numbers written in it, so *)
(*    that a malformed text is a tuple strptime rejects; None is <<>>;     *)
(*  - an instant of the clock is [dia, h, m, s, us], us = 1 standing for   *)
(*    a non-zero microsecond part;                                         *)
(*  - a site label (column filial) is the sequence of its characters,      *)
(*    NULL being <<>>;                                                     *)
(*  - the store is read at the SQL level: fetchone() is the selected row   *)
(*    and row[0] its first column;                                         *)
(*  - columns that no rule reads (codigo, nome, senha, role, cod_tipo,     *)
(*    tipo) are left out of the rows.                                      *)
(***************************************************************************)
EXTENDS Integers, Sequences, FiniteSets, TLC

VARIABLES
    HORARIOS_PADRAO,     \* config: ordered mapping event -> expected time
    TOLERANCIA_MINUTOS,  \* config: grace window in minutes
    funcionarios,        \* table funcionarios: rows [cpf, filial, empresa_id]
    registros,           \* table registros
    empresas,            \* table empresas: rows [id, nome_empresa, cnpj]
    empresa_seq,         \* the SERIAL sequence of empresas.id
    agora,               \* the last instant read from the clock
    apagados,            \* history: ids of the punches the last deletion removed
    ret,                 \* the last call: operation, what it was given, result
    calc,                \* scratch of the pure-function specification
    procs                \* the calls in flight of the concurrent specifications

vars == <<HORARIOS_PADRAO, TOLERANCIA_MINUTOS, funcionarios, registros,
          empresas, empresa_seq, agora, apagados, ret, calc, procs>>

store == <<funcionarios, registros, empresas>>

-----------------------------------------------------------------------------
(* Bounds *)

MaxTol == 3          \* tolerances 0..MaxTol of the pure-function specification
MaxRaw == 6          \* raw deviations -MaxRaw..MaxRaw of the same

-----------------------------------------------------------------------------
(* Values *)

None == <<>>
NoneTxt == "<None>"

Abs(x) == IF x < 0 THEN -x ELSE x

Sign(x) == IF x > 0 THEN 1 ELSE IF x < 0 THEN -1 ELSE 0

F_03 == <<"F","i","l","i","a","l"," ","0","3">>
F_3 == <<"F","i","l","i","a","l"," ","3">>
F_04 == <<"F","i","l","i","a","l"," ","0","4">>
F_4 == <<"F","i","l","i","a","l"," ","4">>
F_02 == <<"F","i","l","i","a","l"," ","0","2">>
F_13 == <<"F","i","l","i","a","l"," ","1","3">>
F_UP04 == <<"F","I","L","I","A","L"," ","0","4">>
F_Matriz == <<"M","a","t","r","i","z">>
F_3andar == <<"3","o"," ","a","n","d","a","r">>

F_NaoIdentificada ==
    <<"N","a","o"," ","I","d","e","n","t","i","f","i","c","a","d","a">>

-----------------------------------------------------------------------------
(* Configuration.  config.py is not among the sources: HORARIOS_PADRAO is  *)
(* the ordered event -> time mapping and TOLERANCIA_MINUTOS the            *)
(* non-negative tolerance that the specification describes.                *)

Entrada == "Entrada"
Saida == "Saida"
JornadaFinalizada == "Jornada Finalizada"

Horarios0800 ==
    << [evento |-> Entrada, hora |-> <<8, 0, 0>>],
       [evento |-> Saida,   hora |-> <<18, 0, 0>>] >>

Horarios0900 ==
    << [evento |-> Entrada, hora |-> <<9, 0, 0>>],
       [evento |-> Saida,   hora |-> <<17, 0, 0>>] >>

\* the configurations the service runs under: <<HORARIOS_PADRAO, TOLERANCIA_MINUTOS>>
Configs == { <<Horarios0800, 10>>, <<Horarios0900, 0>> }

\* list(HORARIOS_PADRAO.keys())
Keys(horarios) == [i \in 1..Len(horarios) |-> horarios[i].evento]

\* horarios[evento]
Lookup(horarios, evento) ==
    horarios[CHOOSE i \in 1..Len(horarios) : horarios[i].evento = evento].hora

-----------------------------------------------------------------------------
(* Schedule resolution *)

IsDigit(c) == c \in {"0", "1", "2", "3", "4", "5", "6", "7", "8", "9"}

DigitVal(c) ==
    CASE c = "0" -> 0 [] c = "1" -> 1 [] c = "2" -> 2 [] c = "3" -> 3
      [] c = "4" -> 4 [] c = "5" -> 5 [] c = "6" -> 6 [] c = "7" -> 7
      [] c = "8" -> 8 [] c = "9" -> 9

\* the longest run of digits at the head of s
RECURSIVE TakeDigits(_)
TakeDigits(s) ==
    IF s = <<>> \/ ~IsDigit(Head(s)) THEN <<>>
    ELSE <<Head(s)>> \o TakeDigits(Tail(s))

\* re.search(r'\d+', s): the first run of digits of s, <<>> when there is none
RECURSIVE ReSearchDigits(_)
ReSearchDigits(s) ==
    IF s = <<>> THEN <<>>
    ELSE IF IsDigit(Head(s)) THEN TakeDigits(s)
    ELSE ReSearchDigits(Tail(s))

\* int(m.group())
RECURSIVE IntOf(_)
IntOf(d) ==
    IF d = <<>> THEN 0
    ELSE IntOf(SubSeq(d, 1, Len(d) - 1)) * 10 + DigitVal(d[Len(d)])

NoNum == -1    \* filial_num = None

\* filial_num of atualizar_registro: the first integer of the label, if any
FilialNum(filial_tx) ==
    IF filial_tx = <<>> THEN NoNum
    ELSE LET m == ReSearchDigits(filial_tx)
         IN  IF m = <<>> THEN NoNum ELSE IntOf(m)

get_horario_padrao(filial, proximo_evento) ==
    IF filial \in {3, 4}
    THEN IF proximo_evento = Entrada THEN <<7, 30, 0>> ELSE <<17, 30, 0>>
    ELSE IF proximo_evento = Entrada THEN <<8, 0, 0>> ELSE <<18, 0, 0>>

HorariosFilial34 ==
    << [evento |-> Entrada, hora |-> <<7, 30, 0>>],
       [evento |-> Saida,   hora |-> <<17, 30, 0>>] >>

\* the mapping bater_ponto reads the expected time from
HorariosBater(filial, padrao) ==
    IF filial \in {F_03, F_3, F_04, F_4} THEN HorariosFilial34 ELSE padrao

\* hora_prevista of bater_ponto
HoraPrevistaBater(filial, proximo_evento, padrao) ==
    Lookup(HorariosBater(filial, padrao), proximo_evento)

\* hora_prevista of atualizar_registro
HoraPrevistaAtualizar(filial_tx, descricao) ==
    get_horario_padrao(FilialNum(filial_tx), descricao)

-----------------------------------------------------------------------------
(* Deviation *)

\* Python's round() of (secs + a fraction of a second when us = 1) / 60:
\* to the nearest integer, a tie going to the even one
PyRoundMinutes(secs, us) ==
    LET q == secs \div 60
        r == secs % 60
    IN  IF r < 30 THEN q
        ELSE IF r > 30 \/ us = 1 THEN q + 1
        ELSE IF q % 2 = 0 THEN q ELSE q + 1

\* diff_bruta of bater_ponto: agora against agora.replace(hour, minute, 0, 0)
DiffBrutaBater(t, hora_prevista) ==
    PyRoundMinutes((t.h * 3600 + t.m * 60 + t.s)
                   - (hora_prevista[1] * 3600 + hora_prevista[2] * 60), t.us)

\* diff_bruta of atualizar_registro: both instants have second = 0
DiffBrutaAtualizar(novo_obj, hora_prevista) ==
    PyRoundMinutes((novo_obj[1] * 3600 + novo_obj[2] * 60)
                   - (hora_prevista[1] * 3600 + hora_prevista[2] * 60), 0)

DiffFinalBater_mut(diff_bruta, tol) ==
    IF Abs(diff_bruta) <= tol THEN 0
    ELSE diff_bruta - tol

\* diff_final of bater_ponto
DiffFinalBater(diff_bruta, tol) ==
    IF Abs(diff_bruta) <= tol THEN 0
    ELSE IF diff_bruta > 0 THEN diff_bruta - tol
    ELSE diff_bruta + tol

\* diff_final of atualizar_registro
DiffFinalAtualizar(diff_bruta, tol) ==
    IF Abs(diff_bruta) <= tol THEN 0
    ELSE IF diff_bruta > 0 THEN diff_bruta - tol
    ELSE diff_bruta + tol

\* datetime.strptime(txt, "%H:%M:%S") succeeds
StrptimeOk(txt) ==
    /\ Len(txt) = 3
    /\ txt[1] \in 0..23
    /\ txt[2] \in 0..59
    /\ txt[3] \in 0..59

\* agora.strftime("%H:%M:%S")
StrftimeHMS(t) == <<t.h, t.m, t.s>>


-----------------------------------------------------------------------------
(* The clock *)

\* times of day at which the clock is read: <<h, m, s, us>>
Instante(d, x) == [dia |-> d, h |-> x[1], m |-> x[2], s |-> x[3], us |-> x[4]]

\* the calendar days the clock runs through
Dias == 1..2

\* the instants at which the clock is read into agora; the reading of
\* obter_proximo_evento that follows the last one may fall on day 2
Instantes ==
    { Instante(1, <<8, 7, 40, 0>>), Instante(1, <<18, 25, 0, 0>>),
      Instante(1, <<23, 59, 59, 1>>) }

Ordem(t) == ((t.dia * 86400) + t.h * 3600 + t.m * 60 + t.s) * 2 + t.us

Meianoite(d) == [dia |-> d, h |-> 0, m |-> 0, s |-> 0, us |-> 0]

\* the dates a second reading of the clock, made right after t, can fall on
Hojes(t) ==
    IF t.h = 23 /\ t.m = 59 /\ t.s = 59 THEN {t.dia, t.dia + 1} ELSE {t.dia}

-----------------------------------------------------------------------------
(* The store *)

Cpfs == {"admin", "111"}

NoId == <<"", 0, 0, 0, 0, 0>>

\* f"{cpf}-{agora.isoformat()}"
IdDe(cpf, t) == <<cpf, t.dia, t.h, t.m, t.s, t.us>>

Existe(cpf) == \E f \in funcionarios : f.cpf = cpf

FuncionarioDe(cpf) == CHOOSE f \in funcionarios : f.cpf = cpf

ExisteRegistro(id) == \E r \in registros : r.id = id

RegistroDe(id) == CHOOSE r \in registros : r.id = id

UpdateObservacao_mut(regs, id, obs) ==
    { [r EXCEPT !.observacao = obs] : r \in regs }

\* UPDATE registros SET observacao = %s WHERE id = %s
UpdateObservacao(regs, id, obs) ==
    { IF r.id = id THEN [r EXCEPT !.observacao = obs] ELSE r : r \in regs }

UpdateHora_mut(regs, id, hora, diff) ==
    { IF r.id = id
      THEN [r EXCEPT !.hora = hora, !.diferenca_min = r.diferenca_min + diff]
      ELSE r : r \in regs }

\* UPDATE registros SET hora = %s, diferenca_min = %s WHERE id = %s
UpdateHora(regs, id, hora, diff) ==
    { IF r.id = id THEN [r EXCEPT !.hora = hora, !.diferenca_min = diff] ELSE r :
        r \in regs }

SemCommit_mut(antes, tx) == tx

\* leaving the connection without conn.commit(): the writes are discarded
SemCommit(antes, tx) == antes

\* conn.commit()
Commit(antes, tx) == tx

RetBase ==
    [op |-> "init", cpf |-> "", id |-> NoId, novo_horario |-> None,
     nova_observacao |-> NoneTxt, repetida |-> FALSE, sev |-> "", msg |-> "",
     evento |-> "", hora_prevista |-> <<0, 0, 0>>, diff_bruta |-> 0,
     diff_final |-> 0, refs |-> <<>>, sucesso |-> 0, ignorados |-> 0,
     erros |-> 0, codigo |-> "", nome_empresa |-> "", cnpj |-> "",
     linhas |-> <<>>, cpfs_antes |-> {}]

CalcIdle == [fase |-> "idle"]

\* no call in flight
ProcsIdle == <<>>

Init ==
    /\ \E c \in Configs : HORARIOS_PADRAO = c[1] /\ TOLERANCIA_MINUTOS = c[2]
    /\ funcionarios = {[cpf |-> "admin", filial |-> <<>>, empresa_id |-> 0]}
    /\ registros = {}
    /\ empresas = {}
    /\ empresa_seq = 1
    /\ agora = Meianoite(1)
    /\ apagados = {}
    /\ ret = RetBase
    /\ calc = CalcIdle
    /\ procs = ProcsIdle

-----------------------------------------------------------------------------
(* bater_ponto *)

\* SELECT COUNT(*) FROM registros WHERE cpf_funcionario = %s AND data = %s
NumPontos(cpf, hoje) ==
    Cardinality({r \in registros : r.cpf_funcionario = cpf /\ r.data = hoje})

obter_proximo_evento(cpf, hoje) ==
    LET eventos == Keys(HORARIOS_PADRAO)
        num_pontos == NumPontos(cpf, hoje)
    IN  IF num_pontos < Len(eventos) THEN eventos[num_pontos + 1]
        ELSE JornadaFinalizada

\* msg_extra: " (N min de atraso)", " (N min de adiantamento)" or ""
MsgExtra(diff_final) ==
    IF diff_final # 0
    THEN IF diff_final > 0
         THEN [tipo |-> "atraso", min |-> diff_final]
         ELSE [tipo |-> "adiantamento", min |-> -diff_final]
    ELSE [tipo |-> "", min |-> 0]

StatusFinal_mut(diff_bruta, diff_final) ==
    IF diff_final # 0 THEN ""
    ELSE "em ponto"

\* status_final: " (em ponto)", "" or " (dentro da tolerância, ...)"
StatusFinal(diff_bruta, diff_final) ==
    IF diff_final # 0 THEN ""
    ELSE IF diff_bruta # 0 THEN "dentro da tolerancia"
    ELSE "em ponto"

\* the classification the confirmation message states
MsgBater(diff_bruta, diff_final) ==
    IF MsgExtra(diff_final).tipo # "" THEN MsgExtra(diff_final).tipo
    ELSE StatusFinal(diff_bruta, diff_final)

\* cpf: the caller's employee id; t: the clock read into agora; hoje: the date
\* of the clock read by obter_proximo_evento, made after the first
BaterPonto(cpf, t, hoje) ==
    /\ Ordem(t) > Ordem(agora)
    /\ hoje \in Hojes(t)
    /\ hoje \in Dias
    /\ agora' = IF hoje = t.dia THEN t ELSE Meianoite(hoje)
    /\ LET proximo_evento == obter_proximo_evento(cpf, hoje)
           filial == IF Existe(cpf) THEN FuncionarioDe(cpf).filial ELSE <<>>
           base == [RetBase EXCEPT !.op = "bater_ponto", !.cpf = cpf]
       IN  IF proximo_evento = JornadaFinalizada
           THEN /\ ret' = [base EXCEPT !.sev = "warning",
                                       !.msg = "jornada finalizada"]
                /\ UNCHANGED registros
           ELSE LET hora_prevista ==
                        HoraPrevistaBater(filial, proximo_evento, HORARIOS_PADRAO)
                    diff_bruta == DiffBrutaBater(t, hora_prevista)
                    diff_final == DiffFinalBater(diff_bruta, TOLERANCIA_MINUTOS)
                    novo_reg ==
                        [id |-> IdDe(cpf, t), cpf_funcionario |-> cpf,
                         data |-> t.dia, hora |-> StrftimeHMS(t),
                         descricao |-> proximo_evento,
                         diferenca_min |-> diff_final, observacao |-> ""]
                    feito == [base EXCEPT !.id = novo_reg.id,
                                          !.evento = proximo_evento,
                                          !.hora_prevista = hora_prevista,
                                          !.diff_bruta = diff_bruta,
                                          !.diff_final = diff_final]
                IN  IF ~Existe(cpf) \/ ExisteRegistro(novo_reg.id)
                    THEN \* the INSERT violates the foreign key (or the
                         \* primary key); nothing catches the error
                         /\ ret' = [feito EXCEPT !.sev = "exception",
                                                 !.msg = "IntegrityError"]
                         /\ UNCHANGED registros
                    ELSE /\ registros' = registros \cup {novo_reg}
                         /\ ret' = [feito EXCEPT
                                      !.sev = "success",
                                      !.msg = MsgBater(diff_bruta, diff_final)]
    /\ UNCHANGED <<HORARIOS_PADRAO, TOLERANCIA_MINUTOS, funcionarios, empresas,
                   empresa_seq, apagados, calc, procs>>

-----------------------------------------------------------------------------
(* atualizar_registro *)

\* cursor.rowcount of an UPDATE ... WHERE id = %s
Rowcount_mut(regs, id) == 0

Rowcount(regs, id) == Cardinality({r \in regs : r.id = id})

RetNaoEncontrado_mut(base) ==
    [base EXCEPT !.sev = "warning", !.msg = "Registro nao encontrado"]

\* return "Registro não encontrado.", "error"
RetNaoEncontrado(base) ==
    [base EXCEPT !.sev = "error", !.msg = "Registro nao encontrado"]

\* return "Formato de hora inválido. Use HH:MM:SS.", "error"
RetHoraInvalida(base) ==
    [base EXCEPT !.sev = "error", !.msg = "Formato de hora invalido"]

\* return "Nenhuma alteração foi realizada.", "warning"
RetNenhumaAlteracao(base) ==
    [base EXCEPT !.sev = "warning", !.msg = "Nenhuma alteracao"]

\* return "Registro atualizado com sucesso.", "success"
RetAtualizado(base) ==
    [base EXCEPT !.sev = "success", !.msg = "Registro atualizado"]

\* history: the call repeats the new time of the successful correction of the
\* same punch that came right before it
Repetida(id_registro, novo_horario) ==
    /\ ret.op = "atualizar_registro"
    /\ ret.sev = "success"
    /\ ret.id = id_registro
    /\ novo_horario # None
    /\ ret.novo_horario = novo_horario

AtualizarRegistro(id_registro, novo_horario, nova_observacao) ==
    LET base == [RetBase EXCEPT !.op = "atualizar_registro", !.id = id_registro,
                                !.novo_horario = novo_horario,
                                !.nova_observacao = nova_observacao,
                                !.repetida = Repetida(id_registro, novo_horario)]
    IN
    /\ IF ~ExisteRegistro(id_registro)
       THEN /\ ret' = RetNaoEncontrado(base)
            /\ registros' = SemCommit(registros, registros)
       ELSE LET comObs == nova_observacao # NoneTxt
                tx1 == IF comObs
                       THEN UpdateObservacao(registros, id_registro, nova_observacao)
                       ELSE registros
                campos1 == IF comObs THEN Rowcount(registros, id_registro) ELSE 0
            IN  IF novo_horario # None /\ ~StrptimeOk(novo_horario)
                THEN /\ ret' = RetHoraInvalida(base)
                     /\ registros' = SemCommit(registros, tx1)
                ELSE LET reg == RegistroDe(id_registro)
                         \* novo_horario is given and the JOIN with
                         \* funcionarios yields a row
                         row == novo_horario # None /\ Existe(reg.cpf_funcionario)
                         filial_tx == FuncionarioDe(reg.cpf_funcionario).filial
                         hora_prevista ==
                             HoraPrevistaAtualizar(filial_tx, reg.descricao)
                         diff_bruta == DiffBrutaAtualizar(novo_horario, hora_prevista)
                         diff_final ==
                             DiffFinalAtualizar(diff_bruta, TOLERANCIA_MINUTOS)
                         tx2 == IF row
                                THEN UpdateHora(tx1, id_registro, novo_horario,
                                                diff_final)
                                ELSE tx1
                         campos_atualizados ==
                             campos1 + (IF row THEN Rowcount(tx1, id_registro) ELSE 0)
                         feito == IF row
                                  THEN [base EXCEPT !.evento = reg.descricao,
                                                    !.hora_prevista = hora_prevista,
                                                    !.diff_bruta = diff_bruta,
                                                    !.diff_final = diff_final]
                                  ELSE base
                     IN  IF campos_atualizados = 0
                         THEN /\ ret' = RetNenhumaAlteracao(feito)
                              /\ registros' = SemCommit(registros, tx2)
                         ELSE /\ ret' = RetAtualizado(feito)
                              /\ registros' = Commit(registros, tx2)
    /\ UNCHANGED <<HORARIOS_PADRAO, TOLERANCIA_MINUTOS, funcionarios, empresas,
                   empresa_seq, agora, apagados, calc, procs>>

-----------------------------------------------------------------------------
(* excluir_funcionario *)

ExcluirFuncionario_mut(cpf) ==
    /\ funcionarios' = {f \in funcionarios : f.cpf # cpf}
    /\ apagados' = {r.id : r \in {x \in registros : x.cpf_funcionario = cpf}}
    /\ ret' = [RetBase EXCEPT !.op = "excluir_funcionario", !.cpf = cpf,
                              !.sev = "success", !.msg = "excluidos"]
    /\ UNCHANGED <<HORARIOS_PADRAO, TOLERANCIA_MINUTOS, registros, empresas,
                   empresa_seq, agora, calc, procs>>

ExcluirFuncionario(cpf) ==
    LET seus == {r \in registros : r.cpf_funcionario = cpf}
        tx1 == registros \ seus
        tx2 == {f \in funcionarios : f.cpf # cpf}
    IN  /\ registros' = Commit(registros, tx1)
        /\ funcionarios' = Commit(funcionarios, tx2)
        /\ apagados' = {r.id : r \in seus}
        /\ ret' = [RetBase EXCEPT !.op = "excluir_funcionario", !.cpf = cpf,
                                  !.sev = "success", !.msg = "excluidos"]
        /\ UNCHANGED <<HORARIOS_PADRAO, TOLERANCIA_MINUTOS, empresas, empresa_seq,
                       agora, calc, procs>>

-----------------------------------------------------------------------------
(* adicionar_funcionario *)

\* lower() of the employer names in use
Lower(nome) ==
    CASE nome = "ACME" -> "acme"
      [] nome = "Acme" -> "acme"
      [] OTHER -> nome

\* _obter_ou_criar_empresa_id: the table after the call, the id it returns and
\* the value of the sequence
obter_ou_criar_empresa_id(nome_empresa, cnpj, emps, seq) ==
    LET achadas == {e \in emps : Lower(e.nome_empresa) = Lower(nome_empresa)}
    IN  IF achadas # {}
        THEN LET resultado == CHOOSE e \in achadas :
                                  \A o \in achadas : e.id <= o.id
             IN  [empresas |-> {IF e.id = resultado.id
                                THEN [e EXCEPT !.cnpj = cnpj] ELSE e : e \in emps},
                  id |-> resultado.id, seq |-> seq]
        ELSE [empresas |-> emps \cup {[id |-> seq, nome_empresa |-> nome_empresa,
                                       cnpj |-> cnpj]},
              id |-> seq, seq |-> seq + 1]

AdicionarFuncionario_mut(codigo, nome, nome_empresa, cnpj, cpf, filial) ==
    LET base == [RetBase EXCEPT !.op = "adicionar_funcionario", !.cpf = cpf,
                                !.codigo = codigo,
                                !.nome_empresa = nome_empresa, !.cnpj = cnpj]
        emp == obter_ou_criar_empresa_id(nome_empresa, cnpj, empresas,
                                         empresa_seq)
    IN
    /\ IF codigo = "" \/ nome = "" \/ nome_empresa = "" \/ cpf = ""
       THEN /\ ret' = [base EXCEPT !.sev = "error",
                                   !.msg = "Campos essenciais"]
            /\ UNCHANGED <<funcionarios, empresas, empresa_seq>>
       ELSE IF Existe(cpf)
       THEN /\ ret' = [base EXCEPT !.sev = "warning", !.msg = "CPF em uso"]
            /\ empresas' = emp.empresas
            /\ empresa_seq' = emp.seq
            /\ UNCHANGED funcionarios
       ELSE /\ funcionarios' =
                  funcionarios \cup
                    {[cpf |-> cpf, filial |-> filial, empresa_id |-> emp.id]}
            /\ empresas' = emp.empresas
            /\ empresa_seq' = emp.seq
            /\ ret' = [base EXCEPT
                         !.sev = "success", !.msg = "adicionado",
                         !.refs = <<[nome_empresa |-> nome_empresa,
                                     cnpj |-> cnpj]>>]
    /\ UNCHANGED <<HORARIOS_PADRAO, TOLERANCIA_MINUTOS, registros, agora,
                   apagados, calc, procs>>

AdicionarFuncionario(codigo, nome, nome_empresa, cnpj, cpf, filial) ==
    LET base == [RetBase EXCEPT !.op = "adicionar_funcionario", !.cpf = cpf,
                                !.codigo = codigo,
                                !.nome_empresa = nome_empresa, !.cnpj = cnpj]
    IN
    /\ IF codigo = "" \/ nome = "" \/ nome_empresa = "" \/ cpf = ""
       THEN /\ ret' = [base EXCEPT !.sev = "error",
                                   !.msg = "Campos essenciais"]
            /\ UNCHANGED <<funcionarios, empresas, empresa_seq>>
       ELSE IF Existe(cpf)
       THEN /\ ret' = [base EXCEPT !.sev = "warning", !.msg = "CPF em uso"]
            /\ funcionarios' = SemCommit(funcionarios, funcionarios)
            /\ UNCHANGED <<empresas, empresa_seq>>
       ELSE LET emp == obter_ou_criar_empresa_id(nome_empresa, cnpj, empresas,
                                                 empresa_seq)
                tx == funcionarios \cup
                        {[cpf |-> cpf, filial |-> filial, empresa_id |-> emp.id]}
            IN  /\ funcionarios' = Commit(funcionarios, tx)
                /\ empresas' = Commit(empresas, emp.empresas)
                /\ empresa_seq' = emp.seq
                /\ ret' = [base EXCEPT
                             !.sev = "success", !.msg = "adicionado",
                             !.refs = <<[nome_empresa |-> nome_empresa,
                                         cnpj |-> cnpj]>>]
    /\ UNCHANGED <<HORARIOS_PADRAO, TOLERANCIA_MINUTOS, registros, agora,
                   apagados, calc, procs>>

-----------------------------------------------------------------------------
(* importar_funcionarios_em_massa *)

LowerChar(c) ==
    CASE c = "A" -> "a" [] c = "F" -> "f" [] c = "I" -> "i" [] c = "L" -> "l"
      [] c = "M" -> "m" [] c = "R" -> "r" [] c = "T" -> "t" [] c = "Z" -> "z"
      [] OTHER -> c

\* texto_arquivo.lower()
LowerTxt(txt) == [i \in 1..Len(txt) |-> LowerChar(txt[i])]

\* sub in txt
Contains(txt, sub) ==
    \E i \in 1..(Len(txt) - Len(sub) + 1) :
        SubSeq(txt, i, i + Len(sub) - 1) = sub

extrair_filial_do_texto(texto_arquivo) ==
    LET texto_lower == LowerTxt(texto_arquivo)
        tem(sub) == Contains(texto_lower, sub)
    IN  IF tem(<<"m","a","t","r","i","z">>) THEN F_Matriz
        ELSE IF tem(<<"f","i","l","i","a","l"," ","0","2">>)
                \/ tem(<<"f","i","l","i","a","l"," ","2">>) THEN F_02
        ELSE IF tem(<<"f","i","l","i","a","l"," ","0","3">>)
                \/ tem(<<"f","i","l","i","a","l"," ","3">>) THEN F_03
        ELSE IF tem(<<"f","i","l","i","a","l"," ","0","4">>)
                \/ tem(<<"f","i","l","i","a","l"," ","4">>) THEN F_04
        ELSE F_NaoIdentificada

\* the locals of the import before its first row: cpfs_existentes read from
\* funcionarios, empresas_existentes (lower(nome_empresa) -> id) read from
\* empresas, the open transaction on empresas, the rows queued
ImportarInicio ==
    [cpfs_existentes |-> {f.cpf : f \in funcionarios},
     empresas_existentes |->
         {[nome |-> Lower(e.nome_empresa), id |-> e.id] : e \in empresas},
     empresas |-> empresas, seq |-> empresa_seq,
     novos_funcionarios |-> <<>>, refs |-> <<>>,
     ignorados_count |-> 0, erros |-> 0]

ImportarLinha_mut(st, row) ==
    IF row.cpf \in st.cpfs_existentes
    THEN [st EXCEPT !.ignorados_count = @ + 1]
    ELSE IF row.codigo = "" \/ row.nome = "" \/ row.cpf = "" \/ row.empresa = ""
    THEN [st EXCEPT !.erros = @ + 1]
    ELSE LET emp == obter_ou_criar_empresa_id(row.empresa, row.cnpj,
                                              st.empresas, st.seq)
         IN  [st EXCEPT
                !.empresas = emp.empresas,
                !.seq = emp.seq,
                !.novos_funcionarios =
                    Append(@, [cpf |-> row.cpf,
                               filial |-> extrair_filial_do_texto(row.arquivo),
                               empresa_id |-> emp.id]),
                !.refs = Append(@, [nome_empresa |-> row.empresa,
                                    cnpj |-> row.cnpj])]

\* one turn of the loop over the rows
ImportarLinha(st, row) ==
    IF row.cpf \in st.cpfs_existentes
    THEN [st EXCEPT !.ignorados_count = @ + 1]
    ELSE IF row.codigo = "" \/ row.nome = "" \/ row.cpf = "" \/ row.empresa = ""
    THEN [st EXCEPT !.erros = @ + 1]
    ELSE LET achadas == {c \in st.empresas_existentes :
                            c.nome = Lower(row.empresa)}
             emp == obter_ou_criar_empresa_id(row.empresa, row.cnpj,
                                              st.empresas, st.seq)
             empresa_id == IF achadas # {}
                           THEN (CHOOSE c \in achadas : TRUE).id
                           ELSE emp.id
         IN  [st EXCEPT
                !.empresas = IF achadas # {} THEN @ ELSE emp.empresas,
                !.seq = IF achadas # {} THEN @ ELSE emp.seq,
                !.empresas_existentes =
                    IF achadas # {} THEN @
                    ELSE @ \cup {[nome |-> Lower(row.empresa), id |-> emp.id]},
                !.novos_funcionarios =
                    Append(@, [cpf |-> row.cpf,
                               filial |-> extrair_filial_do_texto(row.arquivo),
                               empresa_id |-> empresa_id]),
                !.refs = Append(@, [nome_empresa |-> row.empresa,
                                    cnpj |-> row.cnpj]),
                !.cpfs_existentes = @ \cup {row.cpf}]

RECURSIVE ImportarLinhas(_, _)
ImportarLinhas(st, linhas) ==
    IF linhas = <<>> THEN st
    ELSE ImportarLinhas(ImportarLinha(st, Head(linhas)), Tail(linhas))

\* df_funcionarios: [colunas: all the needed columns are there, linhas: the rows]
ImportarFuncionariosEmMassa(df_funcionarios) ==
    LET base == [RetBase EXCEPT !.op = "importar_funcionarios_em_massa",
                                !.linhas = df_funcionarios.linhas,
                                !.cpfs_antes = {f.cpf : f \in funcionarios}]
    IN
    /\ IF ~df_funcionarios.colunas
       THEN /\ ret' = [base EXCEPT !.erros = 1, !.msg = "Erro Critico"]
            /\ UNCHANGED <<funcionarios, empresas, empresa_seq>>
       ELSE LET fim == ImportarLinhas(ImportarInicio, df_funcionarios.linhas)
                novos == {fim.novos_funcionarios[i] :
                              i \in 1..Len(fim.novos_funcionarios)}
            IN  /\ funcionarios' = Commit(funcionarios, funcionarios \cup novos)
                /\ empresas' = Commit(empresas, fim.empresas)
                /\ empresa_seq' = fim.seq
                /\ ret' = [base EXCEPT
                             !.sucesso = Len(fim.novos_funcionarios),
                             !.ignorados = fim.ignorados_count,
                             !.erros = fim.erros,
                             !.refs = fim.refs]
    /\ UNCHANGED <<HORARIOS_PADRAO, TOLERANCIA_MINUTOS, registros, agora,
                   apagados, calc, procs>>

-----------------------------------------------------------------------------
(* The service: one call at a time, each call whole *)

\* the employees whose deletion is asked for
CpfsExcluidos == {"111"}

\* site labels given to new employees
Filiais == {F_03}

\* new times submitted to a correction
NovosHorarios == {None, <<8, 7, 40>>, <<25, 0, 0>>}

NovasObservacoes == {NoneTxt, "justificado"}

\* an id no punch ever had
IdInexistente == <<"111", 0, 0, 0, 0, 0>>

IdsConhecidos == {r.id : r \in registros} \cup apagados \cup {IdInexistente}

\* the sheet imported while the service runs: one row, for cpf 111
PlanilhaServico ==
    [colunas |-> TRUE,
     linhas |-> <<[arquivo |-> <<"F","I","L","I","A","L"," ","3">>,
                   empresa |-> "Acme", cnpj |-> "00.000/0001",
                   codigo |-> "c0", nome |-> "nome", cpf |-> "111"]>>]

Next ==
    \/ \E cpf \in Cpfs, t \in Instantes, hoje \in Dias :
           BaterPonto(cpf, t, hoje)
    \/ \E id \in IdsConhecidos, h \in NovosHorarios, o \in NovasObservacoes :
           AtualizarRegistro(id, h, o)
    \/ \E cpf \in CpfsExcluidos : ExcluirFuncionario(cpf)
    \/ \E codigo \in {"", "c0"}, cpf \in Cpfs, filial \in Filiais :
           AdicionarFuncionario(codigo, "nome", "Acme", "00.000/0001", cpf, filial)
    \/ ImportarFuncionariosEmMassa(PlanilhaServico)

Spec == Init /\ [][Next]_vars

-----------------------------------------------------------------------------
(* The registry of employees and employers: single adds, bulk imports and   *)
(* deletions, one call at a time                                            *)

MaxLinhas == 2       \* rows of an imported sheet

CpfsCadastro == {"111", "222"}

NomesEmpresa == {"Acme", "ACME"}

Cnpjs == {"00.000/0001", "11.111/0001"}

\* a file name that names site 3
ArquivoFilial3 == <<"F","I","L","I","A","L"," ","3">>

LinhaPlanilha(cpf, empresa, cnpj, codigo) ==
    [arquivo |-> ArquivoFilial3, empresa |-> empresa, cnpj |-> cnpj,
     codigo |-> codigo, nome |-> "nome", cpf |-> cpf]

\* the rows a sheet is made of: each cpf under either spelling of the
\* employer's name, each spelling with a cnpj of its own, and a row without
\* CODFORTE
LinhasPlanilha ==
    { LinhaPlanilha("111", "Acme", "00.000/0001", "c0"),
      LinhaPlanilha("111", "ACME", "11.111/0001", "c0"),
      LinhaPlanilha("222", "Acme", "00.000/0001", "c0"),
      LinhaPlanilha("222", "ACME", "11.111/0001", "c0"),
      LinhaPlanilha("222", "Acme", "00.000/0001", "") }

Planilhas ==
    {[colunas |-> FALSE, linhas |-> <<>>]}
      \cup {[colunas |-> TRUE, linhas |-> l] :
               l \in UNION {[1..n -> LinhasPlanilha] : n \in 0..MaxLinhas}}

NextCadastro ==
    \/ \E codigo \in {"", "c0"}, cpf \in CpfsCadastro, e \in NomesEmpresa,
          c \in Cnpjs, filial \in Filiais :
           AdicionarFuncionario(codigo, "nome", e, c, cpf, filial)
    \/ \E df \in Planilhas : ImportarFuncionariosEmMassa(df)
    \/ \E cpf \in CpfsCadastro : ExcluirFuncionario(cpf)

SpecCadastro == Init /\ [][NextCadastro]_vars

-----------------------------------------------------------------------------
(* bater_ponto under concurrent callers.  A call opens three connections,  *)
(* one after the other: obter_proximo_evento counts, then the site is      *)
(* read, then the row is inserted and committed.  Each is a step of its    *)
(* own; the steps of the calls in flight interleave.                       *)

\* the calls in flight
Chamadas == {"a", "b"}

\* the instants the clock is read at by concurrent calls, all on day 1
InstantesConc ==
    { Instante(1, <<8, 0, 0, 0>>), Instante(1, <<8, 0, 0, 1>>),
      Instante(1, <<12, 0, 0, 0>>), Instante(1, <<18, 0, 0, 0>>) }

ChamadaIdle == [pos |-> "idle"]

InitPontoConc ==
    /\ \E c \in Configs : HORARIOS_PADRAO = c[1] /\ TOLERANCIA_MINUTOS = c[2]
    /\ funcionarios = {[cpf |-> "admin", filial |-> <<>>, empresa_id |-> 0]}
    /\ registros = {}
    /\ empresas = {}
    /\ empresa_seq = 1
    /\ agora = Meianoite(1)
    /\ apagados = {}
    /\ ret = RetBase
    /\ calc = CalcIdle
    /\ procs = [p \in Chamadas |-> ChamadaIdle]

\* agora = datetime.now(FUSO_HORARIO): a call comes in and reads the clock
BpAgora(p, cpf, t) ==
    /\ procs[p].pos \in {"idle", "done"}
    /\ Ordem(t) > Ordem(agora)
    /\ agora' = t
    /\ procs' = [procs EXCEPT ![p] = [pos |-> "agora", cpf |-> cpf, agora |-> t]]
    /\ UNCHANGED <<HORARIOS_PADRAO, TOLERANCIA_MINUTOS, funcionarios, registros,
                   empresas, empresa_seq, apagados, ret, calc>>

\* proximo_evento = obter_proximo_evento(cpf), and the early return
BpProximoEvento(p) ==
    /\ procs[p].pos = "agora"
    /\ \E hoje \in Hojes(agora) :
         LET proximo_evento == obter_proximo_evento(procs[p].cpf, hoje)
             base == [RetBase EXCEPT !.op = "bater_ponto", !.cpf = procs[p].cpf]
         IN  IF proximo_evento = JornadaFinalizada
             THEN /\ procs' = [procs EXCEPT ![p] = [pos |-> "done"]]
                  /\ ret' = [base EXCEPT !.sev = "warning",
                                          !.msg = "jornada finalizada"]
             ELSE /\ procs' = [procs EXCEPT
                                 ![p] = [pos |-> "evento", cpf |-> procs[p].cpf,
                                         agora |-> procs[p].agora,
                                         proximo_evento |-> proximo_evento]]
                  /\ UNCHANGED ret
    /\ UNCHANGED <<HORARIOS_PADRAO, TOLERANCIA_MINUTOS, funcionarios, registros,
                   empresas, empresa_seq, agora, apagados, calc>>

\* SELECT filial FROM funcionarios WHERE cpf = %s
BpFilial(p) ==
    /\ procs[p].pos = "evento"
    /\ procs' = [procs EXCEPT
                   ![p] = [pos |-> "filial", cpf |-> procs[p].cpf,
                           agora |-> procs[p].agora,
                           proximo_evento |-> procs[p].proximo_evento,
                           filial |-> IF Existe(procs[p].cpf)
                                      THEN FuncionarioDe(procs[p].cpf).filial
                                      ELSE <<>>]]
    /\ UNCHANGED <<HORARIOS_PADRAO, TOLERANCIA_MINUTOS, funcionarios, registros,
                   empresas, empresa_seq, agora, apagados, ret, calc>>

\* the deviation, the INSERT and its commit, the message
BpInsert(p) ==
    /\ procs[p].pos = "filial"
    /\ LET c == procs[p]
           hora_prevista ==
               HoraPrevistaBater(c.filial, c.proximo_evento, HORARIOS_PADRAO)
           diff_bruta == DiffBrutaBater(c.agora, hora_prevista)
           diff_final == DiffFinalBater(diff_bruta, TOLERANCIA_MINUTOS)
           novo_reg ==
               [id |-> IdDe(c.cpf, c.agora), cpf_funcionario |-> c.cpf,
                data |-> c.agora.dia, hora |-> StrftimeHMS(c.agora),
                descricao |-> c.proximo_evento,
                diferenca_min |-> diff_final, observacao |-> ""]
           feito == [RetBase EXCEPT !.op = "bater_ponto", !.cpf = c.cpf,
                                    !.id = novo_reg.id,
                                    !.evento = c.proximo_evento,
                                    !.hora_prevista = hora_prevista,
                                    !.diff_bruta = diff_bruta,
                                    !.diff_final = diff_final]
       IN  IF ~Existe(c.cpf) \/ ExisteRegistro(novo_reg.id)
           THEN /\ ret' = [feito EXCEPT !.sev = "exception",
                                        !.msg = "IntegrityError"]
                /\ UNCHANGED registros
           ELSE /\ registros' = Commit(registros, registros \cup {novo_reg})
                /\ ret' = [feito EXCEPT
                             !.sev = "success",
                             !.msg = MsgBater(diff_bruta, diff_final)]
    /\ procs' = [procs EXCEPT ![p] = [pos |-> "done"]]
    /\ UNCHANGED <<HORARIOS_PADRAO, TOLERANCIA_MINUTOS, funcionarios, empresas,
                   empresa_seq, agora, apagados, calc>>

NextPontoConc ==
    \/ \E p \in Chamadas, cpf \in Cpfs, t \in InstantesConc : BpAgora(p, cpf, t)
    \/ \E p \in Chamadas : BpProximoEvento(p)
    \/ \E p \in Chamadas : BpFilial(p)
    \/ \E p \in Chamadas : BpInsert(p)

SpecPontoConc == InitPontoConc /\ [][NextPontoConc]_vars

-----------------------------------------------------------------------------
(* adicionar_funcionario under concurrent callers.  A call is one           *)
(* transaction on one connection; each statement is a step and the steps   *)
(* of the calls in flight interleave.  A statement reads what is committed *)
(* (and what its own transaction wrote); an UPDATE waits for the           *)
(* transaction that holds the row, an INSERT waits for the transaction     *)
(* that holds an uncommitted row with the same key and fails when a        *)
(* committed row has it; psycopg2.Error is caught and the connection is    *)
(* closed without commit.                                                  *)

ChamadasCadastro == {"x", "y"}

\* what a call is given
Pedidos ==
    [codigo : {"c0"}, nome_empresa : NomesEmpresa, cnpj : Cnpjs,
     cpf : CpfsCadastro, filial : Filiais]
      \cup {[codigo |-> "", nome_empresa |-> "Acme", cnpj |-> "00.000/0001",
              cpf |-> "111", filial |-> F_03]}

\* a transaction that has written nothing
SemEscritas == [emp_ins |-> {}, emp_upd |-> {}, func_ins |-> {}]

\* the employer table with the writes of a transaction applied
AplicarEmpresas(emps, c) ==
    { IF \E u \in c.emp_upd : u.id = e.id
      THEN [e EXCEPT !.cnpj = (CHOOSE u \in c.emp_upd : u.id = e.id).cnpj]
      ELSE e : e \in emps } \cup c.emp_ins

ViolaChavePrimaria_mut(cpf, funcs) == FALSE

\* cpf TEXT PRIMARY KEY: a committed row has the key
ViolaChavePrimaria(cpf, funcs) == \E f \in funcs : f.cpf = cpf

\* nome_empresa TEXT NOT NULL UNIQUE: a committed row has the name, as written
ViolaUnique(nome_empresa, emps) == \E e \in emps : e.nome_empresa = nome_empresa

\* the committed employer rows a name matches, lower() on both sides
EmpresasConc(nome_empresa) ==
    {e \in empresas : Lower(e.nome_empresa) = Lower(nome_empresa)}

\* the other transactions in flight
Outras(p) == {q \in ChamadasCadastro \ {p} : procs[q].pos \notin {"idle", "done"}}

InitCadastroConc ==
    /\ \E c \in Configs : HORARIOS_PADRAO = c[1] /\ TOLERANCIA_MINUTOS = c[2]
    /\ funcionarios = {[cpf |-> "admin", filial |-> <<>>, empresa_id |-> 0]}
    /\ registros = {}
    /\ \/ empresas = {} /\ empresa_seq = 1
       \/ /\ empresas = {[id |-> 1, nome_empresa |-> "Acme",
                           cnpj |-> "00.000/0001"]}
          /\ empresa_seq = 2
    /\ agora = Meianoite(1)
    /\ apagados = {}
    /\ ret = RetBase
    /\ calc = CalcIdle
    /\ procs = [p \in ChamadasCadastro |-> ChamadaIdle]

\* the result of a call: its return, or the end of its transaction
AfFim(p, sev, msg) ==
    /\ procs' = [procs EXCEPT ![p] = [pos |-> "done", pedido |-> procs[p].pedido,
                                      antes |-> procs[p].antes, sev |-> sev]]
    /\ ret' = [RetBase EXCEPT !.op = "adicionar_funcionario",
                              !.cpf = procs[p].pedido.cpf,
                              !.codigo = procs[p].pedido.codigo,
                              !.nome_empresa = procs[p].pedido.nome_empresa,
                              !.cnpj = procs[p].pedido.cnpj,
                              !.sev = sev, !.msg = msg]

AfPasso(p, pos, campos) ==
    procs' = [procs EXCEPT ![p] = [q \in DOMAIN campos \cup DOMAIN procs[p] |->
                                      IF q = "pos" THEN pos
                                      ELSE IF q \in DOMAIN campos THEN campos[q]
                                      ELSE procs[p][q]]]

\* the call comes in: the check of the essential fields, the connection
AfInicio(p, pedido) ==
    /\ procs[p].pos = "idle"
    /\ IF pedido.codigo = "" \/ pedido.nome_empresa = "" \/ pedido.cpf = ""
       THEN /\ procs' = [procs EXCEPT ![p] = [pos |-> "done", pedido |-> pedido,
                                             antes |-> empresas, sev |-> "error"]]
            /\ ret' = [RetBase EXCEPT !.op = "adicionar_funcionario",
                                      !.cpf = pedido.cpf, !.codigo = pedido.codigo,
                                      !.nome_empresa = pedido.nome_empresa,
                                      !.cnpj = pedido.cnpj,
                                      !.sev = "error", !.msg = "Campos essenciais"]
       ELSE /\ procs' = [procs EXCEPT
                           ![p] = [pos |-> "select_cpf", pedido |-> pedido,
                                   antes |-> empresas, escritas |-> SemEscritas]]
            /\ UNCHANGED ret
    /\ UNCHANGED <<HORARIOS_PADRAO, TOLERANCIA_MINUTOS, funcionarios, registros,
                   empresas, empresa_seq, agora, apagados, calc>>

\* SELECT cpf FROM funcionarios WHERE cpf = %s, and the early return
AfSelectCpf(p) ==
    /\ procs[p].pos = "select_cpf"
    /\ IF Existe(procs[p].pedido.cpf)
       THEN AfFim(p, "warning", "CPF em uso")
       ELSE AfPasso(p, "select_empresa", <<>>) /\ UNCHANGED ret
    /\ UNCHANGED <<HORARIOS_PADRAO, TOLERANCIA_MINUTOS, funcionarios, registros,
                   empresas, empresa_seq, agora, apagados, calc>>

\* SELECT id FROM empresas WHERE lower(nome_empresa) = lower(%s); fetchone()
AfSelectEmpresa(p) ==
    /\ procs[p].pos = "select_empresa"
    /\ LET achadas == EmpresasConc(procs[p].pedido.nome_empresa)
       IN  IF achadas = {}
           THEN AfPasso(p, "insert_empresa", <<>>)
           ELSE \E resultado \in achadas :
                    AfPasso(p, "update_empresa", [empresa_id |-> resultado.id])
    /\ UNCHANGED <<HORARIOS_PADRAO, TOLERANCIA_MINUTOS, funcionarios, registros,
                   empresas, empresa_seq, agora, apagados, ret, calc>>

\* UPDATE empresas SET cnpj = %s WHERE id = %s
AfUpdateEmpresa(p) ==
    /\ procs[p].pos = "update_empresa"
    /\ \A q \in Outras(p) :
           \A u \in procs[q].escritas.emp_upd : u.id # procs[p].empresa_id
    /\ AfPasso(p, "insert_funcionario",
               [escritas |-> [procs[p].escritas EXCEPT
                                !.emp_upd = {[id |-> procs[p].empresa_id,
                                              cnpj |-> procs[p].pedido.cnpj]}]])
    /\ UNCHANGED <<HORARIOS_PADRAO, TOLERANCIA_MINUTOS, funcionarios, registros,
                   empresas, empresa_seq, agora, apagados, ret, calc>>

\* INSERT INTO empresas (nome_empresa, cnpj) VALUES (%s, %s) RETURNING id
AfInsertEmpresa(p) ==
    /\ procs[p].pos = "insert_empresa"
    /\ \A q \in Outras(p) :
           ~ViolaUnique(procs[p].pedido.nome_empresa, procs[q].escritas.emp_ins)
    /\ empresa_seq' = empresa_seq + 1
    /\ IF ViolaUnique(procs[p].pedido.nome_empresa, empresas)
       THEN AfFim(p, "error", "Erro no banco de dados")
       ELSE /\ AfPasso(p, "insert_funcionario",
                       [empresa_id |-> empresa_seq,
                        escritas |->
                            [procs[p].escritas EXCEPT
                               !.emp_ins =
                                   {[id |-> empresa_seq,
                                     nome_empresa |-> procs[p].pedido.nome_empresa,
                                     cnpj |-> procs[p].pedido.cnpj]}]])
            /\ UNCHANGED ret
    /\ UNCHANGED <<HORARIOS_PADRAO, TOLERANCIA_MINUTOS, funcionarios, registros,
                   empresas, agora, apagados, calc>>

\* INSERT INTO funcionarios (...) VALUES (...)
AfInsertFuncionario(p) ==
    /\ procs[p].pos = "insert_funcionario"
    /\ \A q \in Outras(p) :
           ~ViolaChavePrimaria(procs[p].pedido.cpf, procs[q].escritas.func_ins)
    /\ IF ViolaChavePrimaria(procs[p].pedido.cpf, funcionarios)
       THEN /\ AfFim(p, "error", "Erro no banco de dados")
            /\ empresas' = SemCommit(empresas,
                                      AplicarEmpresas(empresas, procs[p].escritas))
       ELSE /\ AfPasso(p, "commit",
                       [escritas |->
                            [procs[p].escritas EXCEPT
                               !.func_ins =
                                   {[cpf |-> procs[p].pedido.cpf,
                                     filial |-> procs[p].pedido.filial,
                                     empresa_id |-> procs[p].empresa_id]}]])
            /\ UNCHANGED <<ret, empresas>>
    /\ UNCHANGED <<HORARIOS_PADRAO, TOLERANCIA_MINUTOS, funcionarios, registros,
                   empresa_seq, agora, apagados, calc>>

\* conn.commit(), and the return
AfCommit(p) ==
    /\ procs[p].pos = "commit"
    /\ empresas' = Commit(empresas, AplicarEmpresas(empresas, procs[p].escritas))
    /\ funcionarios' =
           Commit(funcionarios, funcionarios \cup procs[p].escritas.func_ins)
    /\ AfFim(p, "success", "adicionado")
    /\ UNCHANGED <<HORARIOS_PADRAO, TOLERANCIA_MINUTOS, registros, empresa_seq,
                   agora, apagados, calc>>

NextCadastroConc ==
    \/ \E p \in ChamadasCadastro, pedido \in Pedidos : AfInicio(p, pedido)
    \/ \E p \in ChamadasCadastro : AfSelectCpf(p)
    \/ \E p \in ChamadasCadastro : AfSelectEmpresa(p)
    \/ \E p \in ChamadasCadastro : AfUpdateEmpresa(p)
    \/ \E p \in ChamadasCadastro : AfInsertEmpresa(p)
    \/ \E p \in ChamadasCadastro : AfInsertFuncionario(p)
    \/ \E p \in ChamadasCadastro : AfCommit(p)

SpecCadastroConc == InitCadastroConc /\ [][NextCadastroConc]_vars

-----------------------------------------------------------------------------
(* The pure rules, applied to drawn inputs: the deviation of a raw           *)
(* difference and the expected time of a site, as each flow computes them    *)

SiteTxt(label) == [tipo |-> "txt", num |-> NoNum, txt |-> label]

SiteNum(n) == [tipo |-> "num", num |-> n, txt |-> <<>>]

\* a site as the flows receive it: the text of the column filial (<<>> when
\* there is none), or the number get_horario_padrao is called with
Sites ==
    {SiteTxt(l) : l \in {<<>>, F_03, F_3, F_04, F_4, F_02, F_13, F_UP04,
                         F_Matriz, F_3andar, F_NaoIdentificada}}
      \cup {SiteNum(n) : n \in {NoNum, 2, 3, 4, 13}}

CalcIn ==
    [fase : {"in"}, r : (-MaxRaw)..MaxRaw, site : Sites,
     evento : {Entrada, Saida}, dev_bater : {0}, dev_atualizar : {0},
     hora_bater : {<<0, 0, 0>>}, hora_atualizar : {<<0, 0, 0>>}]

InitCalc ==
    /\ HORARIOS_PADRAO \in {Horarios0800, Horarios0900}
    /\ TOLERANCIA_MINUTOS \in 0..MaxTol
    /\ funcionarios = {[cpf |-> "admin", filial |-> <<>>, empresa_id |-> 0]}
    /\ registros = {}
    /\ empresas = {}
    /\ empresa_seq = 1
    /\ agora = Meianoite(1)
    /\ apagados = {}
    /\ ret = RetBase
    /\ calc \in CalcIn
    /\ procs = ProcsIdle

\* the tolerance band, by both flows
CalcDesvio ==
    /\ calc.fase = "in"
    /\ calc' = [calc EXCEPT
                  !.fase = "desvio",
                  !.dev_bater = DiffFinalBater(calc.r, TOLERANCIA_MINUTOS),
                  !.dev_atualizar = DiffFinalAtualizar(calc.r, TOLERANCIA_MINUTOS)]
    /\ UNCHANGED <<HORARIOS_PADRAO, TOLERANCIA_MINUTOS, funcionarios, registros,
                   empresas, empresa_seq, agora, apagados, ret, procs>>

\* the expected time of a stored site label, by both flows
CalcHorario ==
    /\ calc.fase = "in"
    /\ calc.site.tipo = "txt"
    /\ calc' = [calc EXCEPT
                  !.fase = "horario",
                  !.hora_bater = HoraPrevistaBater(calc.site.txt, calc.evento,
                                                   HORARIOS_PADRAO),
                  !.hora_atualizar = HoraPrevistaAtualizar(calc.site.txt,
                                                           calc.evento)]
    /\ UNCHANGED <<HORARIOS_PADRAO, TOLERANCIA_MINUTOS, funcionarios, registros,
                   empresas, empresa_seq, agora, apagados, ret, procs>>

\* the expected time of a site number, by get_horario_padrao
CalcPadrao ==
    /\ calc.fase = "in"
    /\ calc.site.tipo = "num"
    /\ calc' = [calc EXCEPT
                  !.fase = "padrao",
                  !.hora_atualizar = get_horario_padrao(calc.site.num, calc.evento)]
    /\ UNCHANGED <<HORARIOS_PADRAO, TOLERANCIA_MINUTOS, funcionarios, registros,
                   empresas, empresa_seq, agora, apagados, ret, procs>>

\* the clock times a punch is evaluated at
InstantesCalc ==
    { Instante(1, <<7, 30, 0, 0>>), Instante(1, <<7, 58, 20, 0>>),
      Instante(1, <<8, 0, 0, 0>>), Instante(1, <<8, 0, 30, 0>>),
      Instante(1, <<8, 2, 0, 0>>), Instante(1, <<8, 7, 40, 0>>),
      Instante(1, <<17, 31, 30, 1>>), Instante(1, <<18, 25, 0, 0>>) }

\* a punch of an employee of the site at clock time t, as bater_ponto
\* evaluates and reports it, and then the correction of that punch to the
\* time it was stored with, as atualizar_registro evaluates it
CalcPonto ==
    /\ calc.fase = "in"
    /\ calc.site.tipo = "txt"
    /\ \E t \in InstantesCalc :
         LET hora_bater == HoraPrevistaBater(calc.site.txt, calc.evento,
                                             HORARIOS_PADRAO)
             bruta_bater == DiffBrutaBater(t, hora_bater)
             dev_bater == DiffFinalBater(bruta_bater, TOLERANCIA_MINUTOS)
             hora == StrftimeHMS(t)
             hora_atualizar == HoraPrevistaAtualizar(calc.site.txt, calc.evento)
             bruta_atualizar == DiffBrutaAtualizar(hora, hora_atualizar)
         IN  calc' = [fase |-> "ponto", site |-> calc.site,
                      evento |-> calc.evento, t |-> t, hora |-> hora,
                      hora_bater |-> hora_bater, bruta_bater |-> bruta_bater,
                      dev_bater |-> dev_bater,
                      msg_extra |-> MsgExtra(dev_bater),
                      status_final |-> StatusFinal(bruta_bater, dev_bater),
                      hora_atualizar |-> hora_atualizar,
                      bruta_atualizar |-> bruta_atualizar,
                      dev_atualizar |->
                          DiffFinalAtualizar(bruta_atualizar, TOLERANCIA_MINUTOS)]
    /\ UNCHANGED <<HORARIOS_PADRAO, TOLERANCIA_MINUTOS, funcionarios, registros,
                   empresas, empresa_seq, agora, apagados, ret, procs>>

NextCalc == CalcDesvio \/ CalcHorario \/ CalcPadrao \/ CalcPonto

SpecCalc == InitCalc /\ [][NextCalc]_vars

-----------------------------------------------------------------------------
(* Properties *)

\* d is r taken through the tolerance band tol
BandaDeTolerancia(d, r, tol) ==
    /\ (d = 0) <=> (Abs(r) <= tol)
    /\ Abs(r) > tol => Sign(d) = Sign(r) /\ Abs(d) = Abs(r) - tol

\* C1: for every tolerance T >= 0 and raw deviation r, the deviation either
\* flow computes is 0 exactly when |r| <= T; otherwise it has the sign of r
\* and the magnitude |r| - T.
C1_Desvio ==
    calc.fase = "desvio" =>
        /\ BandaDeTolerancia(calc.dev_bater, calc.r, TOLERANCIA_MINUTOS)
        /\ BandaDeTolerancia(calc.dev_atualizar, calc.r, TOLERANCIA_MINUTOS)

\* an early raw deviation beyond the tolerance has gone through both flows
C1_Witness ==
    /\ calc.fase = "desvio"
    /\ calc.r < 0
    /\ Abs(calc.r) > TOLERANCIA_MINUTOS
    /\ TOLERANCIA_MINUTOS > 0
    /\ calc.dev_bater = calc.r + TOLERANCIA_MINUTOS
    /\ calc.dev_atualizar = calc.dev_bater

\* the sites the alternate schedule is stated for
Sites34 ==
    {SiteNum(3), SiteNum(4), SiteTxt(F_03), SiteTxt(F_3), SiteTxt(F_04),
     SiteTxt(F_4)}

HoraEsperada(site, evento, padrao) ==
    IF site \in Sites34
    THEN IF evento = Entrada THEN <<7, 30, 0>> ELSE <<17, 30, 0>>
    ELSE Lookup(padrao, evento)

\* C3: for the sites 3, 4, "Filial 03", "Filial 3", "Filial 04", "Filial 4"
\* the resolved expected time is 07:30 for Entrada and 17:30 for Saida; for
\* every other site it is the time of the configured default mapping.
C3_HorarioResolvido ==
    /\ calc.fase = "horario" =>
         /\ calc.hora_bater = HoraEsperada(calc.site, calc.evento, HORARIOS_PADRAO)
         /\ calc.hora_atualizar =
                HoraEsperada(calc.site, calc.evento, HORARIOS_PADRAO)
    /\ calc.fase = "padrao" =>
         calc.hora_atualizar = HoraEsperada(calc.site, calc.evento, HORARIOS_PADRAO)

\* C4: for every stored site value, event kind and default schedule, the
\* expected time bater_ponto uses is the one atualizar_registro uses.
C4_MesmoHorario ==
    calc.fase = "horario" => calc.hora_bater = calc.hora_atualizar

\* the rows of one employee on one date
PontosDe(cpf, d) == {r \in registros : r.cpf_funcionario = cpf /\ r.data = d}

\* C2: on one date the k-th bater_ponto of an employee stores the k-th
\* configured event (Entrada, then Saida) and every later call stores
\* nothing: an employee-day never holds more punches than there are
\* configured events, and holds each event at most once.
C2_SequenciaDiaria ==
    \A cpf \in Cpfs, d \in Dias :
        LET eventos == Keys(HORARIOS_PADRAO)
            n == Cardinality(PontosDe(cpf, d))
        IN  /\ n <= Len(eventos)
            /\ {r.descricao : r \in PontosDe(cpf, d)} = {eventos[k] : k \in 1..n}

\* the expected time and the deviation as the rule states them: the site
\* resolved from the stored label, the time of day taken with its seconds
ResolveExpectedTime(filial_tx, evento, padrao) ==
    IF FilialNum(filial_tx) \in {3, 4}
    THEN IF evento = Entrada THEN <<7, 30, 0>> ELSE <<17, 30, 0>>
    ELSE Lookup(padrao, evento)

ComputeDeviation(hora, prevista, tol) ==
    LET raw == PyRoundMinutes((hora[1] * 3600 + hora[2] * 60 + hora[3])
                              - (prevista[1] * 3600 + prevista[2] * 60), 0)
    IN  IF Abs(raw) <= tol THEN 0
        ELSE IF raw > 0 THEN raw - tol ELSE raw + tol

\* C5: in every reachable state each stored punch's deviation is the
\* deviation of its stored time against the expected time of its event at
\* its employee's site, under the configured tolerance.
C5_DesvioCoerente ==
    \A r \in registros :
        Existe(r.cpf_funcionario) =>
            r.diferenca_min =
                ComputeDeviation(
                    r.hora,
                    ResolveExpectedTime(FuncionarioDe(r.cpf_funcionario).filial,
                                        r.descricao, HORARIOS_PADRAO),
                    TOLERANCIA_MINUTOS)

\* the row of registros with this id
LinhaDe(regs, id) == CHOOSE r \in regs : r.id = id

Ids(regs) == {r.id : r \in regs}

\* C6: atualizar_registro is all-or-nothing: a call that returns error (an
\* annotation given with a malformed time, in particular) leaves registros
\* as it was; a successful call given both fields stores the annotation, the
\* time and the recomputed deviation together.
C6_TudoOuNada ==
    [][ret'.op = "atualizar_registro" =>
          /\ ret'.sev = "error" => registros' = registros
          /\ ( /\ ret'.id \in Ids(registros)
               /\ ret'.nova_observacao # NoneTxt
               /\ ret'.novo_horario # None
               /\ ~StrptimeOk(ret'.novo_horario) ) => ret'.sev = "error"
          /\ ( /\ ret'.sev = "success"
               /\ ret'.nova_observacao # NoneTxt
               /\ ret'.novo_horario # None ) =>
                 /\ LinhaDe(registros', ret'.id).observacao = ret'.nova_observacao
                 /\ LinhaDe(registros', ret'.id).hora = ret'.novo_horario
                 /\ LinhaDe(registros', ret'.id).diferenca_min = ret'.diff_final
                 /\ \A r \in registros' : r.id # ret'.id => r \in registros]_vars

\* an annotation and a malformed time were given for a stored punch: error,
\* and the punch keeps its empty annotation
C6_Witness ==
    /\ ret.op = "atualizar_registro"
    /\ ret.msg = "Formato de hora invalido"
    /\ ret.nova_observacao # NoneTxt
    /\ \E r \in registros : r.id = ret.id /\ r.observacao = ""

\* C7: a correction repeated on the same punch with the same new time
\* leaves the stored time and the stored deviation as the first left them.
C7_Idempotente ==
    [][( /\ ret.op = "atualizar_registro"
         /\ ret.sev = "success"
         /\ ret.novo_horario # None
         /\ ret'.op = "atualizar_registro"
         /\ ret'.id = ret.id
         /\ ret'.novo_horario = ret.novo_horario ) =>
           /\ ret'.sev = "success"
           /\ LinhaDe(registros', ret.id).hora = LinhaDe(registros, ret.id).hora
           /\ LinhaDe(registros', ret.id).diferenca_min =
                  LinhaDe(registros, ret.id).diferenca_min]_vars

\* the second of two corrections in a row, of one punch to one new time,
\* that left a deviation other than 0
C7_Witness ==
    /\ ret.op = "atualizar_registro"
    /\ ret.sev = "success"
    /\ ret.novo_horario # None
    /\ ret.repetida
    /\ LinhaDe(registros, ret.id).diferenca_min # 0

\* C8: once excluir_funcionario(cpf) has succeeded the employee row and
\* every punch of that employee are gone, together (no punch is ever left
\* without its employee), and a later atualizar_registro on the id of a
\* removed punch returns "Registro nao encontrado".
C8_Cascata ==
    /\ [](ret.op = "excluir_funcionario" /\ ret.sev = "success" =>
              /\ ~Existe(ret.cpf)
              /\ \A r \in registros : r.cpf_funcionario # ret.cpf)
    /\ [](\A r \in registros : Existe(r.cpf_funcionario))
    /\ [](apagados \cap Ids(registros) = {})
    /\ [][(ret'.op = "atualizar_registro" /\ ret'.id \in apagados) =>
              ret'.sev = "error" /\ ret'.msg = "Registro nao encontrado"]_vars

\* a correction was asked for a punch that a deletion removed, the employee
\* being back in the table
C8_Witness ==
    /\ ret.op = "atualizar_registro"
    /\ ret.id \in apagados
    /\ Existe(ret.id[1])

\* C9: atualizar_registro on an id that is not in registros returns
\* "Registro nao encontrado" with severity error, whatever novo_horario and
\* nova_observacao are, and leaves the store as it was.
C9_NaoEncontrado ==
    [][(ret'.op = "atualizar_registro" /\ ret'.id \notin Ids(registros)) =>
          /\ ret'.sev = "error"
          /\ ret'.msg = "Registro nao encontrado"
          /\ UNCHANGED store]_vars

\* an unknown id was given with a new time and an annotation, other punches
\* being stored
C9_Witness ==
    /\ ret.op = "atualizar_registro"
    /\ ret.id = IdInexistente
    /\ ret.novo_horario # None
    /\ ret.nova_observacao # NoneTxt
    /\ registros # {}

\* C10: atualizar_registro on a stored punch returns warning, never success,
\* and changes nothing when it is given neither field; a warning never comes
\* with a change; an annotation that is given counts as a change (the call
\* never ends in the warning) and is stored as given whenever the call
\* succeeds, which it does unless the time given with it is malformed.
C10_SemAlteracao ==
    [][(ret'.op = "atualizar_registro" /\ ret'.id \in Ids(registros)) =>
          /\ (ret'.novo_horario = None /\ ret'.nova_observacao = NoneTxt) =>
                 ret'.sev = "warning"
          /\ ret'.sev = "warning" => UNCHANGED store
          /\ ret'.nova_observacao # NoneTxt =>
                 /\ ret'.sev # "warning"
                 /\ (ret'.novo_horario = None \/ StrptimeOk(ret'.novo_horario)) =>
                        /\ ret'.sev = "success"
                        /\ LinhaDe(registros', ret'.id).observacao =
                               ret'.nova_observacao]_vars

\* a stored punch was corrected with neither field given
C10_Witness ==
    /\ ret.op = "atualizar_registro"
    /\ ret.id \in Ids(registros)
    /\ ret.novo_horario = None
    /\ ret.nova_observacao = NoneTxt
    /\ ret.sev = "warning"

\* the severities a (message, severity) pair carries; "" before any call
Severidades == {"", "success", "warning", "error"}

\* C11: every operation returns a (message, severity) pair in every store
\* state: a failure raised by the store (a punch for a cpf that has no row in
\* funcionarios) comes back as severity error, never as an exception, and
\* commits nothing.
C11_ParMensagemSeveridade ==
    /\ ret.sev \in Severidades
    /\ (ret.op = "bater_ponto" /\ ~Existe(ret.cpf)) =>
           /\ ret.sev = "error"
           /\ \A r \in registros : r.cpf_funcionario # ret.cpf

\* the employer rows a name refers to
EmpresasDe(nome_empresa) ==
    {e \in empresas : Lower(e.nome_empresa) = Lower(nome_empresa)}

\* C12: after an accepted employee creation (a successful add, or a row an
\* import queued) that names an employer, the employer's stored cnpj is the
\* cnpj of that reference, the last reference of a sheet to the employer
\* winning, whether the employer was stored before, was created by an
\* earlier row of the sheet or is created now.
C12_UltimoCnpj ==
    \A i \in 1..Len(ret.refs) :
        (\A j \in (i + 1)..Len(ret.refs) :
             Lower(ret.refs[j].nome_empresa) # Lower(ret.refs[i].nome_empresa))
        => /\ EmpresasDe(ret.refs[i].nome_empresa) # {}
           /\ \A e \in EmpresasDe(ret.refs[i].nome_empresa) :
                  e.cnpj = ret.refs[i].cnpj

\* what a call of adicionar_funcionario for a stored cpf has to do
AvisoSemEscrita ==
    /\ ret'.sev = "warning"
    /\ UNCHANGED <<funcionarios, empresas, empresa_seq>>

\* C13 as stated: adicionar_funcionario with a cpf that is already in
\* funcionarios returns warning and writes nothing: no row of funcionarios
\* added or changed, no row of empresas created, no cnpj overwritten.
C13_CpfEmUso ==
    [][(ret'.op = "adicionar_funcionario" /\ Existe(ret'.cpf)) =>
          AvisoSemEscrita]_vars

\* C13 amended: the same, for a call that gives all the essential fields
\* (codigo, nome, nome_empresa, cpf); a call that lacks one returns error
\* before the cpf is looked up, and writes nothing either.
C13_CpfEmUsoCompleto ==
    [][(ret'.op = "adicionar_funcionario" /\ Existe(ret'.cpf)) =>
          /\ ret'.codigo # "" => AvisoSemEscrita
          /\ UNCHANGED <<funcionarios, empresas, empresa_seq>>]_vars

\* a complete add for a stored cpf, naming a stored employer with another
\* cnpj, has returned the warning
C13_Witness ==
    /\ ret.op = "adicionar_funcionario"
    /\ ret.sev = "warning"
    /\ ret.codigo # ""
    /\ \E e \in EmpresasDe(ret.nome_empresa) : e.cnpj # ret.cnpj

\* row i of the sheet has all the essential fields
LinhaCompleta(i) ==
    /\ ret.linhas[i].codigo # ""
    /\ ret.linhas[i].nome # ""
    /\ ret.linhas[i].cpf # ""
    /\ ret.linhas[i].empresa # ""

\* the cpf of row i is stored already, or was queued by an earlier row
LinhaRepetida(i) ==
    \/ ret.linhas[i].cpf \in ret.cpfs_antes
    \/ \E j \in 1..(i - 1) :
           ret.linhas[j].cpf = ret.linhas[i].cpf /\ LinhaCompleta(j)

\* C14: an import counts as ignored exactly the rows whose cpf is stored
\* already or was queued by an earlier row of the sheet; such a row is no
\* error, no success, and is not inserted, so that after the import no cpf
\* occurs twice in funcionarios.
C14_RepetidasIgnoradas ==
    (ret.op = "importar_funcionarios_em_massa" /\ ret.msg # "Erro Critico") =>
        LET n == Len(ret.linhas)
            rep == {i \in 1..n : LinhaRepetida(i)}
            novas == {i \in 1..n : ~LinhaRepetida(i) /\ LinhaCompleta(i)}
        IN  /\ ret.ignorados = Cardinality(rep)
            /\ ret.sucesso = Cardinality(novas)
            /\ ret.erros = n - Cardinality(rep) - Cardinality(novas)
            /\ {f.cpf : f \in funcionarios} =
                   ret.cpfs_antes \cup {ret.linhas[i].cpf : i \in novas}
            /\ Cardinality({f.cpf : f \in funcionarios}) =
                   Cardinality(funcionarios)

\* a sheet whose first row was queued and whose second row, for the same
\* cpf under another employer name, was ignored
C14_Witness ==
    /\ ret.op = "importar_funcionarios_em_massa"
    /\ Len(ret.linhas) = 2
    /\ ret.linhas[1].cpf = ret.linhas[2].cpf
    /\ ret.linhas[1].empresa # ret.linhas[2].empresa
    /\ ret.sucesso = 1
    /\ ret.ignorados = 1

\* C15: under every interleaving of concurrent bater_ponto calls of one
\* employee on one date, the count read by obter_proximo_evento and the
\* INSERT act as one atomic unit: registros never holds two punches of one
\* event for an employee-day, nor more punches for an employee-day than
\* there are configured events.
C15_ContagemEInsertAtomicos ==
    \A cpf \in Cpfs, d \in Dias :
        /\ \A r1, r2 \in PontosDe(cpf, d) :
               r1.descricao = r2.descricao => r1 = r2
        /\ Cardinality(PontosDe(cpf, d)) <= Len(HORARIOS_PADRAO)

\* C16: correcting a punch bater_ponto created to the time it is stored
\* with (HH:MM:SS, seconds included) leaves its deviation as it was: for one
\* time of day and one expected time the two flows compute one raw minute
\* difference.
C16_MesmaHoraMesmoDesvio ==
    calc.fase = "ponto" =>
        /\ calc.dev_atualizar = calc.dev_bater
        /\ calc.hora_atualizar = calc.hora_bater =>
               calc.bruta_atualizar = calc.bruta_bater

\* C20: the confirmation of a successful bater_ponto classifies the punch
\* in exactly one of four ways: late by d minutes when the stored deviation
\* d > 0, early by |d| minutes when d < 0, within the tolerance when d = 0
\* and the raw difference is not 0, exactly on time when the raw
\* difference is 0.
C20_Classificacao ==
    calc.fase = "ponto" =>
        LET d == calc.dev_bater
            bruta == calc.bruta_bater
            dito == <<calc.msg_extra.tipo, calc.msg_extra.min, calc.status_final>>
        IN  /\ d > 0 => dito = <<"atraso", d, "">>
            /\ d < 0 => dito = <<"adiantamento", -d, "">>
            /\ (d = 0 /\ bruta # 0) => dito = <<"", 0, "dentro da tolerancia">>
            /\ bruta = 0 => dito = <<"", 0, "em ponto">>

\* a punch 2 minutes after the expected time, inside a tolerance of 3, was
\* reported as within the tolerance
C20_Witness ==
    /\ calc.fase = "ponto"
    /\ calc.bruta_bater = 2
    /\ TOLERANCIA_MINUTOS = 3
    /\ calc.dev_bater = 0
    /\ calc.status_final = "dentro da tolerancia"

\* C17: a stored punch is changed only by atualizar_registro and removed
\* only by the deletion of its employee: atualizar_registro keeps the id,
\* the employee, the date and the event of the punch it is given, touches no
\* other punch, and keeps the time and the deviation when it is given an
\* annotation only; bater_ponto, adicionar_funcionario and the import leave
\* every stored punch as it is.
C17_SoCorrecaoEExclusao ==
    [][\A r \in registros :
          \/ r \in registros'
          \/ /\ ret'.op = "atualizar_registro"
             /\ ret'.id = r.id
             /\ \E n \in registros' :
                   /\ n.id = r.id
                   /\ n.cpf_funcionario = r.cpf_funcionario
                   /\ n.data = r.data
                   /\ n.descricao = r.descricao
                   /\ ret'.novo_horario = None =>
                          n.hora = r.hora /\ n.diferenca_min = r.diferenca_min
             /\ Cardinality(registros') = Cardinality(registros)
          \/ /\ ret'.op = "excluir_funcionario"
             /\ ret'.cpf = r.cpf_funcionario
             /\ r.id \notin Ids(registros')]_vars

\* a punch with a deviation other than 0 was given an annotation only,
\* another punch being stored without one
C17_Witness ==
    /\ ret.op = "atualizar_registro"
    /\ ret.sev = "success"
    /\ ret.novo_horario = None
    /\ LinhaDe(registros, ret.id).observacao = ret.nova_observacao
    /\ LinhaDe(registros, ret.id).diferenca_min # 0
    /\ \E o \in registros : o.id # ret.id /\ o.observacao = ""

\* C18: in every reachable state, under every interleaving of concurrent
\* adds, no two rows of empresas have names that are equal when compared
\* without regard to case.
C18_NomeUnicoSemCaixa ==
    \A e1, e2 \in empresas :
        Lower(e1.nome_empresa) = Lower(e2.nome_empresa) => e1 = e2

\* the names and cnpjs of a table of employers
NomesECnpjs(emps) == {<<e.nome_empresa, e.cnpj>> : e \in emps}

\* two complete calls for one cpf, which no stored employee had, are over
DisputaEncerrada(g, l) ==
    /\ g # l
    /\ procs[g].pos = "done"
    /\ procs[l].pos = "done"
    /\ procs[g].pedido.cpf = procs[l].pedido.cpf
    /\ procs[g].pedido.codigo # ""
    /\ procs[l].pedido.codigo # ""

\* C19: under every interleaving of two concurrent adicionar_funcionario
\* calls for one cpf, afterwards funcionarios has exactly one row with that
\* cpf, one call has returned success and the other has not, and the other
\* has left nothing behind: empresas is what the successful call alone
\* makes of the table it found.
C19_DisputaDeCpf ==
    \A x, y \in ChamadasCadastro :
        DisputaEncerrada(x, y) =>
            \E g, l \in {x, y} :
                /\ g # l
                /\ procs[g].sev = "success"
                /\ procs[l].sev \in {"warning", "error"}
                /\ Cardinality({f \in funcionarios :
                                    f.cpf = procs[g].pedido.cpf}) = 1
                /\ \A f \in funcionarios :
                       f.cpf = procs[g].pedido.cpf =>
                           \E e \in empresas :
                               /\ e.id = f.empresa_id
                               /\ Lower(e.nome_empresa) =
                                      Lower(procs[g].pedido.nome_empresa)
                /\ NomesECnpjs(empresas) =
                       NomesECnpjs(
                           obter_ou_criar_empresa_id(
                               procs[g].pedido.nome_empresa,
                               procs[g].pedido.cnpj, procs[g].antes,
                               empresa_seq).empresas)

\* the call that lost had overwritten the cnpj of the stored employer in its
\* transaction, then failed on the INSERT of the employee
C19_Witness ==
    \E g, l \in ChamadasCadastro :
        /\ DisputaEncerrada(g, l)
        /\ procs[g].sev = "success"
        /\ procs[l].sev = "error"
        /\ procs[l].pedido.cnpj # procs[g].pedido.cnpj
        /\ procs[l].antes # {}
        /\ ret.msg = "Erro no banco de dados"

=============================================================================
